---------------------------- MODULE Spec2Model ----------------------------
(***************************************************************************)
(* Git-Auto-Deploy: the webhook ingestion and dispatch pipeline.           *)
(*                                                                         *)
(* The model follows src/gitautodeploy: httpserver.py (do_POST), the       *)
(* parsers package (get_service_handler and the provider parsers) and      *)
(* gitautodeploy.py (setup, signal_handler).  Project.apply_filters,       *)
(* Project.execute_webhook, Lock and the BitBucket, Generic and GitLab-CI  *)
(* parsers are not part of the sources at hand; they are modelled from the *)
(* written specification and marked as such in the model map.              *)
(***************************************************************************)
EXTENDS Integers, Sequences, FiniteSets, TLC

(***************************************************************************)
(* Strings.  A Python str is a TLA+ string; str.lower and str.find are     *)
(* computed character by character.                                        *)
(***************************************************************************)

UpperCase == "ABCDEFGHIJKLMNOPQRSTUVWXYZ"

LowerCase == "abcdefghijklmnopqrstuvwxyz"

\* One character of str.lower(): an upper-case ASCII letter maps to its
\* lower-case letter, anything else to itself.
LowerOf == [c \in { SubSeq(UpperCase, i, i) : i \in 1..Len(UpperCase) } |->
               LET i == CHOOSE i \in 1..Len(UpperCase) : SubSeq(UpperCase, i, i) = c
               IN  SubSeq(LowerCase, i, i)]

LowerChar(c) == IF c \in DOMAIN LowerOf THEN LowerOf[c] ELSE c

RECURSIVE lower(_)
lower(s) ==
    IF Len(s) = 0 THEN ""
    ELSE LowerChar(SubSeq(s, 1, 1)) \o lower(SubSeq(s, 2, Len(s)))

\* str.find(sub): the lowest 0-based index where sub starts, -1 when absent.
find(s, sub) ==
    LET hits == {i \in 1..(Len(s) - Len(sub) + 1) :
                     SubSeq(s, i, i + Len(sub) - 1) = sub}
    IN  IF hits = {} THEN -1
        ELSE (CHOOSE i \in hits : \A j \in hits : i <= j) - 1

\* str.split(sep)[0] for a one-character separator.
SplitFirst(s, sep) ==
    LET i == find(s, sep) IN IF i = -1 THEN s ELSE SubSeq(s, 1, i)

(***************************************************************************)
(* Dictionaries are functions; "k in d" is k \in DOMAIN d.                 *)
(***************************************************************************)

EmptyDict == [k \in {} |-> ""]

Has(d, k) == k \in DOMAIN d

RECURSIVE SeqToSet(_)
SeqToSet(s) == IF s = <<>> THEN {} ELSE {Head(s)} \cup SeqToSet(Tail(s))

Contains(s, x) == \E i \in 1..Len(s) : s[i] = x


(***************************************************************************)
(* Request bodies.  A JSON document is described by whether it parses,     *)
(* the type of its top-level value and, for an object, its members.        *)
(* A body is either the document's text itself ("plain") or a              *)
(* form-encoded string carrying the text in n "payload" fields ("form").   *)
(***************************************************************************)

InvalidDoc == [valid |-> FALSE, top |-> "none", obj |-> EmptyDict]

ListDoc == [valid |-> TRUE, top |-> "list", obj |-> EmptyDict]

ObjDoc(o) == [valid |-> TRUE, top |-> "dict", obj |-> o]

Plain(doc) == [enc |-> "plain", n |-> 0, doc |-> doc]

FormBody(n, doc) == [enc |-> "form", n |-> n, doc |-> doc]

\* json.loads(s): raises ValueError (json.JSONDecodeError) unless s is the
\* text of a JSON document; a form-encoded string is not one.
json_loads(s) ==
    IF s.enc = "plain" /\ s.doc.valid
    THEN [raised |-> "none", value |-> s.doc]
    ELSE [raised |-> "ValueError", value |-> InvalidDoc]

\* urllib.parse.parse_qs(s): the fields of a form-encoded string, each with
\* the list of its values; the text of a JSON document has no field named
\* "payload".
parse_qs(s) ==
    IF s.enc = "form" /\ s.n > 0
    THEN ("payload" :> [i \in 1..s.n |-> Plain(s.doc)])
    ELSE EmptyDict

\* hmac.new(key, msg, digestmod).hexdigest(): an ideal keyed hash, equal
\* only for equal algorithm, key and message.
HmacHex(alg, key, msg) == <<alg, key, msg>>

Signature(prefix, alg, key, msg) == [prefix |-> prefix, hex |-> HmacHex(alg, key, msg)]

(***************************************************************************)
(* Configuration: the list config["repositories"] after init_config.       *)
(***************************************************************************)

UrlXY == "https://github.com/x/y"

UrlZCred == "https://bob@example.org/z.git"

UrlZ == "https://example.org/z.git"

UrlMirror == "https://example.org/mirror.git"

UrlOther == "https://github.com/other/repo"

RefMaster == "refs/heads/master"

RefDev == "refs/heads/dev"

\* A project with a secret, a working copy and a branch filter.
RepoA ==
    ("url" :> UrlXY) @@ ("secret-token" :> "abc") @@ ("path" :> "/srv/a")
    @@ ("payload-filter" :> << ("ref" :> RefMaster) >>)
    @@ ("header-filter" :> EmptyDict)

\* A second project on the same remote, without a secret.
RepoB ==
    ("url" :> UrlXY) @@ ("path" :> "/srv/b")
    @@ ("payload-filter" :> <<>>) @@ ("header-filter" :> EmptyDict)

\* A project whose URL embeds credentials; init_config derives the alias.
\* It has no working copy, its own secret and a branch filter.
RepoC ==
    ("url" :> UrlZCred) @@ ("url_without_usernme" :> UrlZ)
    @@ ("secret-token" :> "xyz")
    @@ ("payload-filter" :> << ("ref" :> RefMaster) >>)
    @@ ("header-filter" :> EmptyDict)

\* A project matched through "match-url", with the secret of RepoA.
RepoD ==
    ("url" :> UrlMirror) @@ ("match-url" :> UrlZ) @@ ("secret-token" :> "abc")
    @@ ("payload-filter" :> <<>>) @@ ("header-filter" :> EmptyDict)

Repositories == << RepoA, RepoB, RepoC, RepoD >>

Paths == { Repositories[i]["path"] : i \in {j \in 1..Len(Repositories) : Has(Repositories[j], "path")} }

(***************************************************************************)
(* parsers/__init__.py                                                     *)
(***************************************************************************)

\* Mutant of is_bitbucket: the user agent is searched as sent, not lowered.
is_bitbucket_case_sensitive(request_headers) ==
    /\ Has(request_headers, "user-agent")
    /\ request_headers["user-agent"] # ""
    /\ find(request_headers["user-agent"], "bitbucket") # -1

\* Line 47: "user_agent and user_agent.lower().find('bitbucket') != -1".
is_bitbucket(request_headers) ==
    /\ Has(request_headers, "user-agent")
    /\ request_headers["user-agent"] # ""
    /\ find(lower(request_headers["user-agent"]), "bitbucket") # -1

\* Mutant of is_gitlab_ci: the content type is not looked at.
is_gitlab_ci_any_content_type(content_type, payload) == Has(payload, "build_status")

\* Line 37: the GitLab-CI special case.
is_gitlab_ci(content_type, payload) ==
    content_type = "application/json" /\ Has(payload, "build_status")

\* Lines 51-55: the Harbor rule.
is_harbor(payload) == Has(payload, "type") /\ payload["type"] = "PUSH_ARTIFACT"

\* get_service_handler(request_headers, request_body, action, config):
\* the parser class chosen, "None" when no rule matches; raises ValueError
\* when the body is not JSON or its top-level value is not an object.
get_service_handler(request_headers, request_body) ==
    LET loaded == json_loads(request_body)
        payload == loaded.value.obj
        \* '"content-type" in request_headers and request_headers["content-type"]'
        content_type == IF Has(request_headers, "content-type")
                        THEN request_headers["content-type"]
                        ELSE ""
    IN  IF loaded.raised # "none" THEN [raised |-> loaded.raised, handler |-> "None"]
        ELSE IF loaded.value.top # "dict" THEN [raised |-> "ValueError", handler |-> "None"]
        ELSE [raised |-> "none", handler |->
            IF Has(request_headers, "x-coding-event") THEN "CodingRequestParser"
            ELSE IF Has(request_headers, "x-gitlab-event")
                 THEN IF is_gitlab_ci(content_type, payload)
                      THEN "GitLabCIRequestParser"
                      ELSE "GitLabRequestParser"
            ELSE IF Has(request_headers, "x-github-event") THEN "GitHubRequestParser"
            ELSE IF is_bitbucket(request_headers) THEN "BitBucketRequestParser"
            ELSE IF is_harbor(payload) THEN "HarborRequestParser"
            ELSE IF content_type = "application/json" THEN "GenericRequestParser"
            ELSE "None"]

(***************************************************************************)
(* parsers/base.py                                                         *)
(***************************************************************************)

\* Mutant of MatchUrl: the "repo_config in configs" test is left out.
RECURSIVE MatchUrl_no_dedupe(_, _, _, _)
MatchUrl_no_dedupe(repositories, url, i, configs) ==
    IF i > Len(repositories) THEN configs
    ELSE LET repo_config == repositories[i]
             match_url == IF Has(repo_config, "match-url") THEN repo_config["match-url"]
                          ELSE repo_config["url"]
         IN  IF \/ match_url = url
                \/ /\ Has(repo_config, "url_without_usernme")
                   /\ repo_config["url_without_usernme"] = url
             THEN MatchUrl_no_dedupe(repositories, url, i + 1, Append(configs, repo_config))
             ELSE MatchUrl_no_dedupe(repositories, url, i + 1, configs)

\* Mutant of MatchUrl: the alias is tested for presence only, not compared.
RECURSIVE MatchUrl_alias_unchecked(_, _, _, _)
MatchUrl_alias_unchecked(repositories, url, i, configs) ==
    IF i > Len(repositories) THEN configs
    ELSE LET repo_config == repositories[i]
             match_url == IF Has(repo_config, "match-url") THEN repo_config["match-url"]
                          ELSE repo_config["url"]
         IN  IF Contains(configs, repo_config)
             THEN MatchUrl_alias_unchecked(repositories, url, i + 1, configs)
             ELSE IF match_url = url \/ Has(repo_config, "url_without_usernme")
             THEN MatchUrl_alias_unchecked(repositories, url, i + 1,
                                           Append(configs, repo_config))
             ELSE MatchUrl_alias_unchecked(repositories, url, i + 1, configs)

\* The inner loop of get_matching_repo_configs for one url: repositories
\* i..Len are visited in order and appended to configs unless already there.
RECURSIVE MatchUrl(_, _, _, _)
MatchUrl(repositories, url, i, configs) ==
    IF i > Len(repositories) THEN configs
    ELSE LET repo_config == repositories[i]
             match_url == IF Has(repo_config, "match-url") THEN repo_config["match-url"]
                          ELSE repo_config["url"]
         IN  IF Contains(configs, repo_config)
             THEN MatchUrl(repositories, url, i + 1, configs)
             ELSE IF match_url = url
             THEN MatchUrl(repositories, url, i + 1, Append(configs, repo_config))
             ELSE IF /\ Has(repo_config, "url_without_usernme")
                     /\ repo_config["url_without_usernme"] = url
             THEN MatchUrl(repositories, url, i + 1, Append(configs, repo_config))
             ELSE MatchUrl(repositories, url, i + 1, configs)

\* The outer loop over the candidate urls, from url number k on.
RECURSIVE MatchUrls(_, _, _, _)
MatchUrls(repositories, urls, k, configs) ==
    IF k > Len(urls) THEN configs
    ELSE MatchUrls(repositories, urls, k + 1, MatchUrl(repositories, urls[k], 1, configs))

\* Mutant of get_matching_repo_configs: the loops are nested the other way
\* round, the configured repositories outside and the urls inside.
RECURSIVE MatchRepos(_, _, _, _)
MatchRepos(repositories, urls, i, configs) ==
    IF i > Len(repositories) THEN configs
    ELSE LET repo_config == repositories[i]
             match_url == IF Has(repo_config, "match-url") THEN repo_config["match-url"]
                          ELSE repo_config["url"]
             hit == \E k \in 1..Len(urls) :
                        \/ match_url = urls[k]
                        \/ /\ Has(repo_config, "url_without_usernme")
                           /\ repo_config["url_without_usernme"] = urls[k]
         IN  IF hit /\ ~ Contains(configs, repo_config)
             THEN MatchRepos(repositories, urls, i + 1, Append(configs, repo_config))
             ELSE MatchRepos(repositories, urls, i + 1, configs)

get_matching_repo_configs_config_order(repositories, urls) ==
    MatchRepos(repositories, urls, 1, <<>>)

\* WebhookRequestParserBase.get_matching_repo_configs(urls, action).
get_matching_repo_configs(repositories, urls) ==
    MatchUrls(repositories, urls, 1, <<>>)

\* Mutant of base_validate_request: "all" in place of "any".
base_validate_request_not_all(repo_configs) ==
    ~ \A i \in 1..Len(repo_configs) : Has(repo_configs[i], "secret-token")

\* WebhookRequestParserBase.validate_request.
base_validate_request(repo_configs) ==
    ~ \E i \in 1..Len(repo_configs) : Has(repo_configs[i], "secret-token")

(***************************************************************************)
(* The provider parsers.                                                   *)
(***************************************************************************)

\* "for k in keys: if k in data['repository']: repo_urls.append(...)".
RECURSIVE RepoUrls(_, _)
RepoUrls(repository, keys) ==
    IF keys = <<>> THEN <<>>
    ELSE IF Has(repository, Head(keys))
         THEN <<repository[Head(keys)]>> \o RepoUrls(repository, Tail(keys))
         ELSE RepoUrls(repository, Tail(keys))

GitHubUrlKeys == << "url", "git_url", "clone_url", "ssh_url" >>

GitLabUrlKeys == << "url", "git_http_url", "git_ssh_url" >>

CodingUrlKeys == << "web_url", "https_url", "ssh_url" >>

\* Mutant of github_get_matching_projects: without a repository object no
\* url narrows the match, and every configured project is returned.
github_get_matching_projects_unguarded(repositories, data) ==
    IF ~ Has(data, "repository") THEN repositories
    ELSE get_matching_repo_configs(repositories, RepoUrls(data["repository"], GitHubUrlKeys))

\* GitHubRequestParser.get_matching_projects.
github_get_matching_projects(repositories, data) ==
    IF ~ Has(data, "repository") THEN <<>>
    ELSE get_matching_repo_configs(repositories, RepoUrls(data["repository"], GitHubUrlKeys))

\* GitLabRequestParser.get_matching_projects.
gitlab_get_matching_projects(repositories, data) ==
    IF ~ Has(data, "repository") THEN <<>>
    ELSE get_matching_repo_configs(repositories, RepoUrls(data["repository"], GitLabUrlKeys))

\* CodingRequestParser.verify_token.
verify_token(secret_token, request_token) == secret_token = request_token

\* The token loop of CodingRequestParser.get_matching_projects.
RECURSIVE CodingKeep(_, _)
CodingKeep(items, data) ==
    IF items = <<>> THEN <<>>
    ELSE LET repo_config == Head(items)
             dropped == /\ Has(repo_config, "secret-token")
                        /\ \/ ~ Has(data, "token")
                           \/ ~ verify_token(repo_config["secret-token"], data["token"])
         IN  IF dropped THEN CodingKeep(Tail(items), data)
             ELSE <<repo_config>> \o CodingKeep(Tail(items), data)

\* CodingRequestParser.get_matching_projects.
coding_get_matching_projects(repositories, data) ==
    IF ~ Has(data, "repository") THEN <<>>
    ELSE CodingKeep(
             get_matching_repo_configs(repositories, RepoUrls(data["repository"], CodingUrlKeys)),
             data)

\* Mutant of verify_signature_256: only the "sha256=" prefix is compared.
verify_signature_256_prefix_only(secret_token, payload_body, signature_header) ==
    signature_header.prefix = "sha256="

\* GitHubRequestParser.verify_signature_256.
verify_signature_256(secret_token, payload_body, signature_header) ==
    Signature("sha256=", "sha256", secret_token, payload_body) = signature_header

\* Mutant of verify_signature_sha1: the digest is computed with SHA-256.
verify_signature_sha1_wrong_digest(token, body, signature) ==
    Signature("sha1=", "sha256", token, body) = signature

\* GitHubRequestParser.verify_signature_sha1.
verify_signature_sha1(token, body, signature) ==
    Signature("sha1=", "sha1", token, body) = signature

\* Mutant of GitHubProjectValid: the signature headers are looked for before
\* the project's secret token is.
GitHubProjectValid_headers_first(request_headers, request_body, repo_config) ==
    IF ~ Has(request_headers, "x-hub-signature-256")
    THEN IF ~ Has(request_headers, "x-hub-signature") THEN FALSE
         ELSE \/ ~ Has(repo_config, "secret-token")
              \/ verify_signature_sha1(repo_config["secret-token"], request_body,
                                       request_headers["x-hub-signature"])
    ELSE \/ ~ Has(repo_config, "secret-token")
         \/ verify_signature_256(repo_config["secret-token"], request_body,
                                 request_headers["x-hub-signature-256"])

\* The body of the loop of GitHubRequestParser.validate_request (lines
\* 45-70) for one project: FALSE where the loop returns False.
GitHubProjectValid(request_headers, request_body, repo_config) ==
    IF ~ Has(repo_config, "secret-token") THEN TRUE
    ELSE IF ~ Has(request_headers, "x-hub-signature-256")
         THEN IF ~ Has(request_headers, "x-hub-signature") THEN FALSE
              ELSE verify_signature_sha1(repo_config["secret-token"], request_body,
                                         request_headers["x-hub-signature"])
         ELSE verify_signature_256(repo_config["secret-token"], request_body,
                                   request_headers["x-hub-signature-256"])

\* Mutant of github_validate_request: the verdict on the first project is
\* returned from inside the loop.
github_validate_request_first_only(request_headers, request_body, repo_configs) ==
    \/ repo_configs = <<>>
    \/ GitHubProjectValid(request_headers, request_body, Head(repo_configs))

\* GitHubRequestParser.validate_request: the loop over repo_configs, which
\* returns False at the first project whose signature is missing or wrong.
RECURSIVE github_validate_request(_, _, _)
github_validate_request(request_headers, request_body, repo_configs) ==
    IF repo_configs = <<>> THEN TRUE
    ELSE IF ~ GitHubProjectValid(request_headers, request_body, Head(repo_configs)) THEN FALSE
    ELSE github_validate_request(request_headers, request_body, Tail(repo_configs))

\* GitLabRequestParser.validate_request.
RECURSIVE gitlab_validate_request(_, _)
gitlab_validate_request(request_headers, repo_configs) ==
    IF repo_configs = <<>> THEN TRUE
    ELSE LET repo_config == Head(repo_configs)
         IN  IF /\ Has(repo_config, "secret-token")
                /\ Has(request_headers, "x-gitlab-token")
                /\ repo_config["secret-token"] # request_headers["x-gitlab-token"]
             THEN FALSE
             ELSE gitlab_validate_request(request_headers, Tail(repo_configs))

\* parsers/harbor.py: EVENT_KEYS, RESOURCE_KEYS, REPOSITORY_KEYS.
EVENT_KEYS == << "type", "occur_at", "operator", "event_data" >>

RESOURCE_KEYS == << "digest", "tag", "resource_url" >>

REPOSITORY_KEYS == << "date_created", "name", "namespace", "repo_full_name", "repo_type" >>

\* The keys "for key in ('resources, repository')" iterates over: the
\* parenthesised expression is one string, so the keys are its characters.
EventDataKeys == { SubSeq("resources, repository", i, i) : i \in 1..Len("resources, repository") }

\* is_valid_webhook_request(data), for a dict data whose "event_data", when
\* present, is a dict.  The conjunction is evaluated left to right and stops
\* at the first false conjunct; looking up "resources" or "repository" in an
\* event_data without that key raises KeyError.
is_valid_webhook_request(data) ==
    IF ~ \A i \in 1..Len(EVENT_KEYS) : Has(data, EVENT_KEYS[i])
    THEN [raised |-> "none", value |-> FALSE]
    ELSE LET event_data == data["event_data"]
         IN  IF ~ \A key \in EventDataKeys : Has(event_data, key)
             THEN [raised |-> "none", value |-> FALSE]
             ELSE IF ~ Has(event_data, "resources") \/ ~ Has(event_data, "repository")
             THEN [raised |-> "KeyError", value |-> FALSE]
             ELSE LET resources == event_data["resources"]
                      repository == event_data["repository"]
                  IN  [raised |-> "none", value |->
                          /\ Len(resources) > 0
                          /\ \A k \in 1..Len(RESOURCE_KEYS) : \A r \in 1..Len(resources) :
                                 Has(resources[r], RESOURCE_KEYS[k])
                          /\ \A k \in 1..Len(REPOSITORY_KEYS) : Has(repository, REPOSITORY_KEYS[k])]

\* HarborRequestParser.get_matching_projects: [raised, projects].
harbor_get_matching_projects(repositories, data) ==
    LET ok == is_valid_webhook_request(data)
    IN  IF ok.raised # "none" THEN [raised |-> ok.raised, projects |-> <<>>]
        ELSE IF ~ ok.value THEN [raised |-> "none", projects |-> <<>>]
        ELSE IF ~ Has(data, "event_type") THEN [raised |-> "KeyError", projects |-> <<>>]
        ELSE LET match_url == SplitFirst(data["event_data"]["resources"][1]["resource_url"], "@")
             IN  [raised |-> "none",
                  projects |-> get_matching_repo_configs(repositories, <<match_url>>)]

\* HarborRequestParser.validate_request: request_headers.get("Authorization").
RECURSIVE harbor_validate_request(_, _)
harbor_validate_request(request_headers, repo_configs) ==
    IF repo_configs = <<>> THEN TRUE
    ELSE LET repo_config == Head(repo_configs)
         IN  IF ~ Has(repo_config, "secret-token")
             THEN harbor_validate_request(request_headers, Tail(repo_configs))
             ELSE IF \/ ~ Has(request_headers, "Authorization")
                     \/ request_headers["Authorization"] # repo_config["secret-token"]
             THEN FALSE
             ELSE harbor_validate_request(request_headers, Tail(repo_configs))

\* The BitBucket, Generic and GitLab-CI parsers: the common contract of the
\* provider parsers (candidate urls from the repository object, none without
\* one), with the GitHub-like fields.
other_get_matching_projects(repositories, data) ==
    IF ~ Has(data, "repository") THEN <<>>
    ELSE get_matching_repo_configs(repositories, RepoUrls(data["repository"], GitHubUrlKeys))

\* service_handler.get_matching_projects(request_headers, request_body, action).
get_matching_projects(handler, repositories, request_body) ==
    LET data == json_loads(request_body).value.obj
    IN  CASE handler = "GitHubRequestParser" ->
                 [raised |-> "none", projects |-> github_get_matching_projects(repositories, data)]
          [] handler = "GitLabRequestParser" ->
                 [raised |-> "none", projects |-> gitlab_get_matching_projects(repositories, data)]
          [] handler = "CodingRequestParser" ->
                 [raised |-> "none", projects |-> coding_get_matching_projects(repositories, data)]
          [] handler = "HarborRequestParser" -> harbor_get_matching_projects(repositories, data)
          [] OTHER ->
                 [raised |-> "none", projects |-> other_get_matching_projects(repositories, data)]

\* service_handler.validate_request(request_headers, request_body_bytes, projects, action):
\* GitHub, GitLab and Harbor override it, every other parser inherits the base one.
validate_request(handler, request_headers, request_body_bytes, repo_configs) ==
    CASE handler = "GitHubRequestParser" ->
             github_validate_request(request_headers, request_body_bytes, repo_configs)
      [] handler = "GitLabRequestParser" -> gitlab_validate_request(request_headers, repo_configs)
      [] handler = "HarborRequestParser" -> harbor_validate_request(request_headers, repo_configs)
      [] OTHER -> base_validate_request(repo_configs)

(***************************************************************************)
(* Project.apply_filters: a project with no payload filter passes; a       *)
(* filter object passes when all its entries equal the payload's fields;   *)
(* one passing filter object is enough.  The header filter is a mapping    *)
(* whose entries must all equal the request's headers.                     *)
(***************************************************************************)

FilterObjectPasses(filter, data) ==
    \A k \in DOMAIN filter : Has(data, k) /\ data[k] = filter[k]

apply_filters(project, request_headers, request_body) ==
    LET data == json_loads(request_body).value.obj
        payload_filter == project["payload-filter"]
        header_filter == project["header-filter"]
    IN  /\ \/ payload_filter = <<>>
           \/ \E i \in 1..Len(payload_filter) : FilterObjectPasses(payload_filter[i], data)
        /\ \A h \in DOMAIN header_filter :
               Has(request_headers, h) /\ request_headers[h] = header_filter[h]

\* Mutant of FilterProjects: the matched projects go on to validation
\* unfiltered.
FilterProjects_keep_all(projects, request_headers, request_body) == projects

\* "for project in projects: if project.apply_filters(...): matching_projects.append(project)".
RECURSIVE FilterProjects(_, _, _)
FilterProjects(projects, request_headers, request_body) ==
    IF projects = <<>> THEN <<>>
    ELSE IF apply_filters(Head(projects), request_headers, request_body)
         THEN <<Head(projects)>> \o FilterProjects(Tail(projects), request_headers, request_body)
         ELSE FilterProjects(Tail(projects), request_headers, request_body)

(***************************************************************************)
(* httpserver.py: WebhookRequestHandler.do_POST                            *)
(***************************************************************************)

\* "dict((k.lower(), v) for k, v in request_headers.items())".
HeaderNames ==
    { "Content-Type", "User-Agent", "X-Coding-Event", "X-Gitlab-Event", "X-GitHub-Event",
      "X-Hub-Signature-256", "X-Hub-Signature", "X-Gitlab-Token", "Authorization" }

\* lower() of the header names, computed once.
LowerName == [h \in HeaderNames |-> lower(h)]

LowerKeys(headers) ==
    LET low == [h \in DOMAIN headers |-> IF h \in HeaderNames THEN LowerName[h] ELSE lower(h)]
    IN  [k \in { low[h] : h \in DOMAIN headers } |->
            headers[CHOOSE h \in DOMAIN headers : low[h] = k]]

\* What one call of do_POST did: the exception it ended with ("none" when it
\* returned), the response status sent (0: none), the action's fields, the
\* stage reached, the parser chosen, the projects after matching and after
\* filtering, the projects an execution was started for, and the calls on
\* the response and the action in the order they were made.
Outcome(stage, raised, status, waiting, success, handler, matched, filtered, started, trace) ==
    [stage |-> stage, raised |-> raised, status |-> status,
     waiting |-> waiting, success |-> success, handler |-> handler,
     matched |-> matched, filtered |-> filtered, started |-> started,
     trace |-> <<"register_action", "set_waiting(True)">> \o trace]

\* Mutant of Rejected: the handler of unexpected exceptions sends the 500
\* and re-raises without resolving the action.
Rejected_error_unresolved(stage, raised, status, handler, matched, filtered) ==
    IF stage = "error"
    THEN Outcome(stage, raised, status, TRUE, "None", handler, matched, filtered, <<>>,
                 << "send" >>)
    ELSE Outcome(stage, raised, status, FALSE, "False", handler, matched, filtered, <<>>,
                 << "send", "set_waiting(False)", "set_success(False)" >>)

Rejected(stage, raised, status, handler, matched, filtered) ==
    Outcome(stage, raised, status, FALSE, "False", handler, matched, filtered, <<>>,
            << "send", "set_waiting(False)", "set_success(False)" >>)

\* Lines 117-122: the body json.loads and the parsers are given.
ExtractBody(request_headers, request_body) ==
    IF request_headers["content-type"] = "application/x-www-form-urlencoded"
    THEN LET res == parse_qs(request_body)
         IN  IF Has(res, "payload") /\ Len(res["payload"]) = 1
             THEN res["payload"][1]
             ELSE request_body
    ELSE request_body

\* Mutant of ValidateFiltered: the parser is given the JSON text extracted
\* from a form-encoded body instead of the bytes received.
ValidateFiltered_extracted(handler, request_headers, request_body_bytes, projects) ==
    validate_request(handler, request_headers,
                     ExtractBody(request_headers, request_body_bytes), projects)

\* Lines 184-186: the verdict of the chosen parser on the filtered projects.
ValidateFiltered(handler, request_headers, request_body_bytes, projects) ==
    validate_request(handler, request_headers, request_body_bytes, projects)

\* Mutant of Dispatch: the action is marked waiting again while the workers
\* are started.
Dispatch_waits_again(handler, matched, projects) ==
    IF Len(projects) = 0
    THEN Outcome("empty", "none", 200, FALSE, "False", handler, matched, projects, <<>>,
                 << "send", "set_waiting(False)", "set_success(False)" >>)
    ELSE Outcome("accepted", "none", 200, TRUE, "True", handler, matched, projects, projects,
                 << "send", "set_waiting(False)", "set_success(True)", "set_waiting(True)" >>
                 \o [i \in 1..Len(projects) |-> "thread.start"])

\* Mutant of Dispatch: the workers are started before the response is sent
\* and the action resolved.
Dispatch_threads_first(handler, matched, projects) ==
    IF Len(projects) = 0
    THEN Outcome("empty", "none", 200, FALSE, "False", handler, matched, projects, <<>>,
                 << "send", "set_waiting(False)", "set_success(False)" >>)
    ELSE Outcome("accepted", "none", 200, FALSE, "True", handler, matched, projects, projects,
                 [i \in 1..Len(projects) |-> "thread.start"]
                 \o << "send", "set_waiting(False)", "set_success(True)" >>)

\* Lines 202-217, after the 200 response was sent.
Dispatch(handler, matched, projects) ==
    IF Len(projects) = 0
    THEN Outcome("empty", "none", 200, FALSE, "False", handler, matched, projects, <<>>,
                 << "send", "set_waiting(False)", "set_success(False)" >>)
    ELSE Outcome("accepted", "none", 200, FALSE, "True", handler, matched, projects, projects,
                 << "send", "set_waiting(False)", "set_success(True)" >>
                 \o [i \in 1..Len(projects) |-> "thread.start"])

\* Lines 132-245: the try block, with request_body already known to be JSON.
HandleRequest(repositories, request_headers, request_body, request_body_bytes) ==
    LET service_handler == get_service_handler(request_headers, request_body)
        handler == service_handler.handler
        found == get_matching_projects(handler, repositories, request_body)
        projects == FilterProjects(found.projects, request_headers, request_body)
    IN  IF service_handler.raised # "none"
        THEN Rejected("invalid", "none", 400, "None", <<>>, <<>>)
        ELSE IF handler = "None"
        THEN Rejected("unrecognized", "none", 400, handler, <<>>, <<>>)
        ELSE IF found.raised # "none"
        THEN Rejected("error", found.raised, 500, handler, <<>>, <<>>)
        ELSE IF Len(found.projects) = 0
        THEN Rejected("nomatch", "none", 400, handler, <<>>, <<>>)
        ELSE IF ~ ValidateFiltered(handler, request_headers, request_body_bytes, projects)
        THEN Rejected("mismatch", "none", 400, handler, found.projects, projects)
        ELSE Dispatch(handler, found.projects, projects)

\* do_POST(self) for one request [headers, body].
do_POST(repositories, request) ==
    LET request_body_bytes == request.body
        request_headers == LowerKeys(request.headers)
    IN  IF ~ Has(request_headers, "content-type")
        THEN Outcome("headers", "KeyError", 0, TRUE, "None", "None", <<>>, <<>>, <<>>, <<>>)
        ELSE LET request_body == ExtractBody(request_headers, request_body_bytes)
             IN  IF json_loads(request_body).raised # "none"
                 THEN Outcome("test_case", "ValueError", 0, TRUE, "None", "None",
                              <<>>, <<>>, <<>>, <<>>)
                 ELSE HandleRequest(repositories, request_headers, request_body,
                                    request_body_bytes)

(***************************************************************************)
(* The requests the model delivers.                                        *)
(***************************************************************************)

Opt(name, values) == {EmptyDict} \cup { name :> v : v \in values }

MakeRequests(header_sets, bodies) ==
    UNION { { [headers |-> h, body |-> b] : h \in header_sets[b] } : b \in bodies }

BothEncodings(docs) == { Plain(d) : d \in docs } \cup { FormBody(1, d) : d \in docs }

\* Requests that differ in what the classifier reads: every combination of
\* the provider marker headers, the user agent and the content type, with
\* bodies that are not JSON, not an object, or an object with or without
\* "type", "build_status" and "repository".
ClassifierObjects ==
    { t @@ b @@ r @@ ("ref" :> RefMaster) :
        t \in Opt("type", {"PUSH_ARTIFACT"}),
        b \in Opt("build_status", {"success"}),
        r \in Opt("repository", { ("url" :> UrlXY) @@ ("web_url" :> UrlXY) }) }

ClassifierBodies ==
    BothEncodings({ InvalidDoc, ListDoc } \cup { ObjDoc(o) : o \in ClassifierObjects })
    \cup { FormBody(2, ObjDoc("ref" :> RefMaster)) }

ClassifierHeaders ==
    { c @@ l @@ g @@ u @@ t :
        c \in Opt("X-Coding-Event", {"push"}),
        l \in Opt("X-Gitlab-Event", {"Push Hook"}),
        g \in Opt("X-GitHub-Event", {"push"}),
        u \in Opt("User-Agent", {"curl/8.0", "Bitbucket-Webhooks/2.0"}),
        t \in Opt("Content-Type", {"application/json", "application/x-www-form-urlencoded",
                                   "text/plain"}) }

ClassifierRequests == MakeRequests([b \in ClassifierBodies |-> ClassifierHeaders], ClassifierBodies)

\* Requests that differ in what matching, filtering and validation read:
\* one provider each, every combination of the signature and token headers
\* and of the payload's repository, token and ref.
AuthObjects ==
    { r @@ k @@ f :
        r \in { "repository" :> u : u \in
                  { ("url" :> UrlXY) @@ ("web_url" :> UrlXY),
                    ("url" :> UrlOther) @@ ("ssh_url" :> UrlZ),
                    ("url" :> UrlZCred) @@ ("https_url" :> UrlZCred) } },
        k \in Opt("token", {"abc", "xyz"}),
        f \in { "ref" :> RefMaster, "ref" :> RefDev } }

AuthBodies == BothEncodings({ ObjDoc(o) : o \in AuthObjects })

SigKeys == { "abc", "xyz" }

ProviderHeaders ==
    { "X-Coding-Event" :> "push", "X-Gitlab-Event" :> "Push Hook", "X-GitHub-Event" :> "push",
      "User-Agent" :> "Bitbucket-Webhooks/2.0", EmptyDict }

\* The texts a sender may have signed: the body as sent and, for a
\* form-encoded body, the JSON text carried in its payload field.
SignedTexts(body) == { body } \cup (IF body.enc = "form" THEN { Plain(body.doc) } ELSE {})

AuthHeaders(body) ==
    { p @@ t @@ s2 @@ s1 @@ k :
        p \in ProviderHeaders,
        t \in { "Content-Type" :> "application/json",
                "Content-Type" :> "application/x-www-form-urlencoded" },
        s2 \in Opt("X-Hub-Signature-256",
                   { Signature("sha256=", "sha256", key, text) :
                        key \in SigKeys, text \in SignedTexts(body) }),
        s1 \in Opt("X-Hub-Signature",
                   { Signature("sha1=", "sha1", key, body) : key \in SigKeys }),
        k \in Opt("X-Gitlab-Token", {"abc", "xyz"}) }

AuthRequests == MakeRequests([b \in AuthBodies |-> AuthHeaders(b)], AuthBodies)

\* Harbor webhooks: the documented payload (type, occur_at, operator,
\* event_data with resources and repository), with or without "event_type",
\* with or without members of event_data named by the single characters of
\* "resources, repository", and with or without an Authorization header.
HarborResource(url) ==
    ("digest" :> "sha256:d1") @@ ("tag" :> "v1") @@ ("resource_url" :> url \o "@sha256:d1")

HarborRepository ==
    ("date_created" :> "1") @@ ("name" :> "app") @@ ("namespace" :> "lib")
    @@ ("repo_full_name" :> "lib/app") @@ ("repo_type" :> "private")

\* event_data without its resources or its repository, with no resource,
\* with a resource without its tag, with a repository without its name.
HarborIncompleteData ==
    { "repository" :> HarborRepository,
      "resources" :> << HarborResource(UrlXY) >>,
      ("resources" :> <<>>) @@ ("repository" :> HarborRepository),
      ("resources" :> << ("digest" :> "sha256:d1") @@ ("resource_url" :> UrlXY \o "@sha256:d1") >>)
          @@ ("repository" :> HarborRepository),
      ("resources" :> << HarborResource(UrlXY) >>)
          @@ ("repository" :> [k \in (DOMAIN HarborRepository) \ {"name"} |-> HarborRepository[k]]) }

HarborEventData ==
    { d @@ c :
        d \in { ("resources" :> << HarborResource(u) >>) @@ ("repository" :> HarborRepository) :
                   u \in { UrlXY, UrlZ, UrlOther } }
              \cup HarborIncompleteData,
        c \in { EmptyDict, [k \in EventDataKeys |-> ""] } }

HarborObjects ==
    { ("type" :> "PUSH_ARTIFACT") @@ ("occur_at" :> "1") @@ ("operator" :> "admin") @@ d @@ e :
        d \in { "event_data" :> x : x \in HarborEventData } \cup { EmptyDict },
        e \in Opt("event_type", {"PUSH_ARTIFACT"}) }

HarborBodies == BothEncodings({ ObjDoc(o) : o \in HarborObjects })

HarborHeaders ==
    { t @@ a :
        t \in { "Content-Type" :> "application/json",
                "Content-Type" :> "application/x-www-form-urlencoded" },
        a \in Opt("Authorization", {"abc", "xyz"}) }

HarborRequests == MakeRequests([b \in HarborBodies |-> HarborHeaders], HarborBodies)

Requests == ClassifierRequests \cup AuthRequests \cup HarborRequests

(***************************************************************************)
(* State.                                                                  *)
(***************************************************************************)

VARIABLES
    main_pc,    \* the main thread: "constructed", "setup", "serving", "stopped"
    locks,      \* the lock marker files of each project path: [running, waiting]
    threads,    \* the execute_webhook workers started by do_POST and still alive
    wire,       \* the request accepted by the listener and not yet handled: <<>> or <<r>>
    last,       \* the last call of do_POST: <<>> or << [request, outcome] >>
    ws_clients, \* GitAutoDeploy._ws_clients: the list of web-socket handlers to update
    ws_handlers \* each web-socket handler: its connection and what it did and was sent

vars == << main_pc, locks, threads, wire, last, ws_clients, ws_handlers >>

\* The most web-socket connections, and the longest list of clients.
MaxHandlers == 2

MaxWsClients == 3

Handlers == 1..MaxHandlers

\* A handler before its connection is opened: "auths" counts the
\* authenticate messages with the right key it has sent, "updated" is the
\* state its connection was in when update() last sent to it.
NewHandler == [state |-> "connecting", auths |-> 0, updated |-> "never"]

NoWebSocket ==
    /\ ws_clients = <<>>
    /\ ws_handlers = [h \in Handlers |-> NewHandler]

\* The most worker threads alive at once.
MaxThreads == 3

LockStates == [running : BOOLEAN, waiting : BOOLEAN]

Cleared == [running |-> FALSE, waiting |-> FALSE]

RemoveAt(s, i) == SubSeq(s, 1, i - 1) \o SubSeq(s, i + 1, Len(s))

\* After GitAutoDeploy() is constructed: nothing is served yet, and the
\* lock markers on disk are whatever an earlier process left behind.
Init ==
    /\ main_pc = "constructed"
    /\ locks \in [Paths -> LockStates]
    /\ threads = <<>>
    /\ wire = <<>>
    /\ last = <<>>
    /\ NoWebSocket

(***************************************************************************)
(* gitautodeploy.py: setup, serve_forever, signal_handler                  *)
(***************************************************************************)

\* Mutant of ClearedLocks: only the status_running marker is cleared.
ClearedLocks_running_only(repositories, old) ==
    [p \in DOMAIN old |->
        IF \E i \in 1..Len(repositories) :
               Has(repositories[i], "path") /\ repositories[i]["path"] = p
        THEN [old[p] EXCEPT !.running = FALSE]
        ELSE old[p]]

\* Mutant of ClearedLocks: the markers are left as they are.
ClearedLocks_none(repositories, old) == old

\* GitAutoDeploy.setup, lines 322-328: every repository with a path has both
\* of its locks cleared, "with no regard to possible ongoing processes".
ClearedLocks(repositories, old) ==
    [p \in DOMAIN old |->
        IF \E i \in 1..Len(repositories) :
               Has(repositories[i], "path") /\ repositories[i]["path"] = p
        THEN Cleared
        ELSE old[p]]

\* main() and signal_handler (SIGHUP) both call setup(config) ...
Setup ==
    /\ main_pc \in {"constructed", "stopped"}
    /\ main_pc' = "setup"
    /\ locks' = ClearedLocks(Repositories, locks)
    /\ UNCHANGED << threads, wire, last, ws_clients, ws_handlers >>

\* ... and then serve_forever().
ServeForever ==
    /\ main_pc = "setup"
    /\ main_pc' = "serving"
    /\ UNCHANGED << locks, threads, wire, last, ws_clients, ws_handlers >>

\* signal_handler: stop() shuts the servers down; the workers started by
\* earlier requests are neither joined nor stopped.
SignalStop ==
    /\ main_pc = "serving"
    /\ main_pc' = "stopped"
    /\ wire' = <<>>
    /\ UNCHANGED << locks, threads, last, ws_clients, ws_handlers >>

(***************************************************************************)
(* The listener and the handler.                                           *)
(***************************************************************************)

\* HTTPServer.serve_forever accepts a connection while the server runs.
Arrive(r) ==
    /\ main_pc = "serving"
    /\ wire = <<>>
    /\ wire' = <<r>>
    /\ UNCHANGED << main_pc, locks, threads, last, ws_clients, ws_handlers >>

\* Mutant of NewThreads: the loop leaves after the first project.
NewThreads_first_only(projects) ==
    [i \in 1..(IF Len(projects) > 0 THEN 1 ELSE 0) |-> [project |-> projects[i], pc |-> "start"]]

\* "thread = threading.Thread(target=project.execute_webhook, ...); thread.start()".
NewThreads(projects) == [i \in 1..Len(projects) |-> [project |-> projects[i], pc |-> "start"]]

\* One call of do_POST, workers started included.
DoPost ==
    /\ main_pc = "serving"
    /\ wire # <<>>
    /\ LET outcome == do_POST(Repositories, wire[1])
       IN  /\ Len(threads) + Len(outcome.started) <= MaxThreads
           /\ threads' = threads \o NewThreads(outcome.started)
           /\ last' = << [request |-> wire[1], outcome |-> outcome] >>
    /\ wire' = <<>>
    /\ UNCHANGED << main_pc, locks, ws_clients, ws_handlers >>

(***************************************************************************)
(* Project.execute_webhook and Lock.  An attempt for a project with a path *)
(* takes the running marker of that path before it touches the working     *)
(* copy; when the marker is already set it sets the waiting marker and     *)
(* does not start; when it is done it clears both markers.  A project      *)
(* without a path takes no lock and runs nothing.                          *)
(***************************************************************************)

HasPath(t) == Has(t.project, "path")

\* Lock.obtain on status_running succeeds: the attempt is now running.
ExecObtain(i) ==
    /\ threads[i].pc = "start"
    /\ HasPath(threads[i])
    /\ ~ locks[threads[i].project["path"]].running
    /\ locks' = [locks EXCEPT ![threads[i].project["path"]].running = TRUE]
    /\ threads' = [threads EXCEPT ![i].pc = "running"]
    /\ UNCHANGED << main_pc, wire, last, ws_clients, ws_handlers >>

\* Lock.obtain on status_running fails: the attempt marks itself waiting.
ExecWait(i) ==
    /\ threads[i].pc = "start"
    /\ HasPath(threads[i])
    /\ locks[threads[i].project["path"]].running
    /\ locks' = [locks EXCEPT ![threads[i].project["path"]].waiting = TRUE]
    /\ UNCHANGED << main_pc, threads, wire, last, ws_clients, ws_handlers >>

\* The update and the deploy commands are over: both markers are cleared.
ExecFinish(i) ==
    /\ threads[i].pc = "running"
    /\ locks' = [locks EXCEPT ![threads[i].project["path"]] = Cleared]
    /\ threads' = RemoveAt(threads, i)
    /\ UNCHANGED << main_pc, wire, last, ws_clients, ws_handlers >>

\* A project without a path: nothing to lock, nothing to run.
ExecNoPath(i) ==
    /\ threads[i].pc = "start"
    /\ ~ HasPath(threads[i])
    /\ threads' = RemoveAt(threads, i)
    /\ UNCHANGED << main_pc, locks, wire, last, ws_clients, ws_handlers >>

(***************************************************************************)
(* Specifications.                                                         *)
(***************************************************************************)

GitHubPush(doc, key) ==
    [headers |-> ("X-GitHub-Event" :> "push") @@ ("Content-Type" :> "application/json")
                 @@ ("X-Hub-Signature-256" :> Signature("sha256=", "sha256", key, Plain(doc))),
     body |-> Plain(doc)]

\* The requests of the whole-system specification: a push for the projects
\* with a working copy, one for the project without, and an unsigned one.
SampleRequests ==
    { GitHubPush(ObjDoc(("repository" :> ("url" :> UrlXY)) @@ ("ref" :> RefMaster)), "abc"),
      GitHubPush(ObjDoc(("repository" :> ("url" :> UrlXY)) @@ ("ref" :> RefDev)), "nope"),
      GitHubPush(ObjDoc(("repository" :> ("url" :> UrlZCred)) @@ ("ref" :> RefMaster)), "xyz"),
      [headers |-> ("Content-Type" :> "application/json"),
       body |-> Plain(ObjDoc(("repository" :> ("url" :> UrlOther)) @@ ("ref" :> RefDev)))] }

Next ==
    \/ Setup
    \/ ServeForever
    \/ SignalStop
    \/ \E r \in SampleRequests : Arrive(r)
    \/ DoPost
    \/ \E i \in 1..Len(threads) : ExecObtain(i)
    \/ \E i \in 1..Len(threads) : ExecWait(i)
    \/ \E i \in 1..Len(threads) : ExecFinish(i)
    \/ \E i \in 1..Len(threads) : ExecNoPath(i)

\* The whole system: start-up, reloads, requests and their workers.
Spec == Init /\ [][Next]_vars

\* Start-up after a crash: every project's running marker was left set.
InitCrashed ==
    /\ main_pc = "constructed"
    /\ locks \in [Paths -> { l \in LockStates : l.running }]
    /\ threads = <<>>
    /\ wire = <<>>
    /\ last = <<>>
    /\ NoWebSocket

SpecCrashed == InitCrashed /\ [][Next]_vars

\* The handler alone: one request, drawn from Requests, delivered to a
\* serving process and handled.
InitPost ==
    /\ main_pc = "serving"
    /\ locks = [p \in Paths |-> Cleared]
    /\ threads = <<>>
    /\ wire \in { <<r>> : r \in Requests }
    /\ last = <<>>
    /\ NoWebSocket

NextPost == DoPost

SpecPost == InitPost /\ [][NextPost]_vars

\* The longest sequence of candidate urls and the longest configured list
\* get_matching_repo_configs is called with on its own.
MaxUrls == 3

MaxRepos == 3

SeqsUpTo(S, n) == UNION { [1..k -> S] : k \in 0..n }

CandidateUrls == { UrlXY, UrlZCred, UrlZ, UrlMirror, UrlOther }

\* The calls of get_matching_repo_configs: every sequence of candidate urls
\* with every configured list over the four projects, in any order and with
\* a project listed twice.
MatchCalls ==
    { [repositories |-> rs, urls |-> us] :
        rs \in SeqsUpTo({ RepoA, RepoB, RepoC, RepoD }, MaxRepos),
        us \in SeqsUpTo(CandidateUrls, MaxUrls) }

\* The matcher alone: wire holds the call to make, last the call made with
\* the list it returned.
InitMatch ==
    /\ main_pc = "matching"
    /\ locks = [p \in Paths |-> Cleared]
    /\ threads = <<>>
    /\ wire \in { <<c>> : c \in MatchCalls }
    /\ last = <<>>
    /\ NoWebSocket

Match ==
    /\ main_pc = "matching"
    /\ wire # <<>>
    /\ last' = << [repositories |-> wire[1].repositories,
                   urls |-> wire[1].urls,
                   configs |-> get_matching_repo_configs(wire[1].repositories,
                                                         wire[1].urls)] >>
    /\ wire' = <<>>
    /\ UNCHANGED << main_pc, locks, threads, ws_clients, ws_handlers >>

NextMatch == Match

SpecMatch == InitMatch /\ [][NextMatch]_vars

(***************************************************************************)
(* The web-socket server: the handlers made by                             *)
(* websocket_client_handler_factory share the list _ws_clients, which      *)
(* GitAutoDeploy.update iterates.                                          *)
(***************************************************************************)

\* server_status["auth-key"].
AuthKey == "key-1"

\* The messages a client sends: binary, text that is not JSON, JSON that
\* is not an object, and objects with or without "type" and "auth-key".
WsObjects ==
    { t @@ k :
        t \in Opt("type", {"authenticate", "ping"}),
        k \in Opt("auth-key", {AuthKey, "key-2"}) }

WsMessages ==
    { [isBinary |-> b, payload |-> Plain(d)] :
        b \in BOOLEAN,
        d \in { InvalidDoc, ListDoc } \cup { ObjDoc(o) : o \in WsObjects } }

\* list.remove(x): the list without the first item equal to x.
ListRemove(s, x) == RemoveAt(s, CHOOSE i \in 1..Len(s) : s[i] = x /\ \A j \in 1..(i - 1) : s[j] # x)

\* WebSocketClientHandler.onMessage: the clients list afterwards and
\* whether sendClose() was called.
onMessage(clients, self, payload, isBinary) ==
    IF isBinary THEN [clients |-> clients, sendClose |-> FALSE]
    ELSE LET loaded == json_loads(payload)
             data == loaded.value
         IN  IF /\ loaded.raised = "none"
                /\ data.top = "dict"
                /\ Has(data.obj, "type")
                /\ data.obj["type"] = "authenticate"
             THEN IF Has(data.obj, "auth-key") /\ data.obj["auth-key"] = AuthKey
                  THEN [clients |-> Append(clients, self), sendClose |-> FALSE]
                  ELSE [clients |-> clients, sendClose |-> FALSE]
             ELSE [clients |-> clients, sendClose |-> ~ Contains(clients, self)]

\* WebSocketClientHandler.onClose.
onClose(clients, self) ==
    IF Contains(clients, self) THEN ListRemove(clients, self) ELSE clients

IsAuthentication(m) ==
    /\ ~ m.isBinary
    /\ m.payload.doc.valid
    /\ m.payload.doc.top = "dict"
    /\ Has(m.payload.doc.obj, "type") /\ m.payload.doc.obj["type"] = "authenticate"
    /\ Has(m.payload.doc.obj, "auth-key") /\ m.payload.doc.obj["auth-key"] = AuthKey

\* The connection of handler h is opened.
OnOpen(h) ==
    /\ ws_handlers[h].state = "connecting"
    /\ ws_handlers' = [ws_handlers EXCEPT ![h].state = "open"]
    /\ UNCHANGED << main_pc, locks, threads, wire, last, ws_clients >>

\* A message arrives on the open connection of handler h.
OnMessage(h, m) ==
    /\ ws_handlers[h].state = "open"
    /\ IsAuthentication(m) => Len(ws_clients) < MaxWsClients
    /\ LET done == onMessage(ws_clients, h, m.payload, m.isBinary)
       IN  /\ ws_clients' = done.clients
           /\ ws_handlers' =
                  [ws_handlers EXCEPT
                     ![h].state = IF done.sendClose THEN "closing" ELSE @,
                     ![h].auths = IF IsAuthentication(m) THEN @ + 1 ELSE @]
    /\ UNCHANGED << main_pc, locks, threads, wire, last >>

\* The connection of handler h is closed, by either side.
OnClose(h) ==
    /\ ws_handlers[h].state \in {"open", "closing"}
    /\ ws_clients' = onClose(ws_clients, h)
    /\ ws_handlers' = [ws_handlers EXCEPT ![h].state = "closed"]
    /\ UNCHANGED << main_pc, locks, threads, wire, last >>

\* GitAutoDeploy.update: sendMessage on every item of the list.
Update ==
    /\ ws_clients # <<>>
    /\ ws_handlers' =
           [h \in Handlers |->
               IF Contains(ws_clients, h)
               THEN [ws_handlers[h] EXCEPT !.updated = ws_handlers[h].state]
               ELSE ws_handlers[h]]
    /\ UNCHANGED << main_pc, locks, threads, wire, last, ws_clients >>

InitWs ==
    /\ main_pc = "serving"
    /\ locks = [p \in Paths |-> Cleared]
    /\ threads = <<>>
    /\ wire = <<>>
    /\ last = <<>>
    /\ NoWebSocket

NextWs ==
    \/ \E h \in Handlers : OnOpen(h)
    \/ \E h \in Handlers : \E m \in WsMessages : OnMessage(h, m)
    \/ \E h \in Handlers : OnClose(h)
    \/ Update

SpecWs == InitWs /\ [][NextWs]_vars

(***************************************************************************)
(* Properties.                                                             *)
(***************************************************************************)

Handled == last # <<>>

Req == last[1].request

Out == last[1].outcome

\* The request's headers as sent, looked up by their wire names.
Sent(name) == name \in DOMAIN Req.headers

\* The JSON object the classifier and the parsers were given.
Payload == Req.body.doc.obj

\* get_service_handler returned (a parser or None).
Classified == Handled /\ Out.stage \notin {"headers", "test_case", "invalid"}

\* validate_request was called on the filtered projects.
Validated == Handled /\ Out.stage \in {"mismatch", "empty", "accepted"}

Secret(p) == p["secret-token"]

WithSecret(projects) == { i \in 1..Len(projects) : Has(projects[i], "secret-token") }

NothingStarted == Out.started = <<>> /\ threads = <<>>

\* C1: for every project path, at most one execution attempt is running
\* (holds the running marker it obtained) at any instant.
C1_AtMostOneRunning ==
    \A p \in Paths :
        Cardinality({ i \in 1..Len(threads) :
                        /\ threads[i].pc = "running"
                        /\ HasPath(threads[i])
                        /\ threads[i].project["path"] = p }) <= 1

\* The user agents of the model that contain "bitbucket" in some casing.
BitbucketAgents == { "Bitbucket-Webhooks/2.0" }

\* The parsers the priority order allows for the handled request: the first
\* rule that applies decides.
C2_Expected ==
    IF Sent("X-Coding-Event") THEN {"CodingRequestParser"}
    ELSE IF Sent("X-Gitlab-Event") THEN {"GitLabRequestParser", "GitLabCIRequestParser"}
    ELSE IF Sent("X-GitHub-Event") THEN {"GitHubRequestParser"}
    ELSE IF Sent("User-Agent") /\ Req.headers["User-Agent"] \in BitbucketAgents
         THEN {"BitBucketRequestParser"}
    ELSE IF "type" \in DOMAIN Payload /\ Payload["type"] = "PUSH_ARTIFACT"
         THEN {"HarborRequestParser"}
    ELSE IF Req.headers["Content-Type"] = "application/json" THEN {"GenericRequestParser"}
    ELSE {"None"}

\* C2: whenever the classifier returns for a JSON-object body, its result is
\* the one of the first applicable rule in the order Coding, GitLab or
\* GitLab-CI, GitHub, BitBucket, Harbor, Generic, none.
C2_PriorityOrder == Classified => Out.handler \in C2_Expected

\* C2 witness: a request that satisfies the BitBucket, the Harbor and the
\* Generic rule at once was classified (as BitBucket).
C2_Witness ==
    /\ Classified
    /\ ~ Sent("X-Coding-Event") /\ ~ Sent("X-Gitlab-Event") /\ ~ Sent("X-GitHub-Event")
    /\ Sent("User-Agent") /\ Req.headers["User-Agent"] \in BitbucketAgents
    /\ "type" \in DOMAIN Payload /\ Payload["type"] = "PUSH_ARTIFACT"
    /\ Req.headers["Content-Type"] = "application/json"
    /\ Out.handler = "BitBucketRequestParser"

GitLabMarked == Classified /\ Sent("X-Gitlab-Event") /\ ~ Sent("X-Coding-Event")

\* C3 as claimed: a request with the GitLab marker (and no Coding marker) is
\* GitLab-CI exactly when its JSON body has a build_status field, under
\* every content type.
C3_Original ==
    GitLabMarked =>
        Out.handler = IF "build_status" \in DOMAIN Payload
                      THEN "GitLabCIRequestParser"
                      ELSE "GitLabRequestParser"

\* C3 as amended: such a request is GitLab-CI exactly when its content type
\* is application/json and its JSON body has a build_status field, and
\* GitLab otherwise.
C3_Amended ==
    GitLabMarked =>
        Out.handler = IF /\ Req.headers["Content-Type"] = "application/json"
                         /\ "build_status" \in DOMAIN Payload
                      THEN "GitLabCIRequestParser"
                      ELSE "GitLabRequestParser"

\* C3 witness: a form-encoded payload field with build_status, classified
\* as GitLab.
C3_Witness ==
    /\ GitLabMarked
    /\ Req.body.enc = "form"
    /\ "build_status" \in DOMAIN Payload
    /\ Out.handler = "GitLabRequestParser"

\* The body do_POST hands to json.loads is not the text of a JSON object.
Malformed ==
    /\ Sent("Content-Type")
    /\ LET parsed == json_loads(ExtractBody(LowerKeys(Req.headers), Req.body))
       IN  parsed.raised # "none" \/ parsed.value.top # "dict"

\* C4: a request whose body is not valid JSON, or not a JSON object, gets a
\* 400 response, starts no execution and leaves its action resolved as
\* failed (waiting false, success false).
C4_MalformedRejected ==
    (Handled /\ Malformed) =>
        /\ Out.status = 400
        /\ NothingStarted
        /\ Out.waiting = FALSE
        /\ Out.success = "False"

\* C5: a 200 response is sent only if at least one project survived
\* matching, filtering and validation.
C5_OkOnlyIfProjectSurvives ==
    (Handled /\ Out.status = 200) => Len(Out.filtered) > 0

\* The verdict of the chosen parser's validate_request on one project alone.
PassesAlone(p) == validate_request(Out.handler, LowerKeys(Req.headers), Req.body, <<p>>)

\* C6: if any one of the projects passed to validate_request fails its
\* authenticity check, the response is 400 and no execution is started.
C6_AllOrNothing ==
    (Validated /\ \E i \in 1..Len(Out.filtered) : ~ PassesAlone(Out.filtered[i])) =>
        /\ Out.status = 400
        /\ NothingStarted

\* C6 witness: a rejected batch with a project that fails and a project
\* with a secret that would have passed alone.
C6_Witness ==
    /\ Validated
    /\ Out.status = 400
    /\ \E i, j \in 1..Len(Out.filtered) :
           /\ ~ PassesAlone(Out.filtered[i])
           /\ PassesAlone(Out.filtered[j])
           /\ Has(Out.filtered[j], "secret-token")

GitHubValidated == Validated /\ Out.handler = "GitHubRequestParser"

Sha256Of(p) == Signature("sha256=", "sha256", Secret(p), Req.body)

Sha1Of(p) == Signature("sha1=", "sha1", Secret(p), Req.body)

\* C7: for a GitHub request that carries x-hub-signature-256, a project with
\* a secret is accepted only if the header is "sha256=" plus the hex
\* HMAC-SHA256 of the raw body under its token; with a mismatching header
\* the request is rejected whatever x-hub-signature holds.
C7_Sha256Decides ==
    (GitHubValidated /\ Sent("X-Hub-Signature-256")) =>
        /\ \A i \in WithSecret(Out.started) :
               Req.headers["X-Hub-Signature-256"] = Sha256Of(Out.started[i])
        /\ (\E i \in WithSecret(Out.filtered) :
               Req.headers["X-Hub-Signature-256"] # Sha256Of(Out.filtered[i]))
           => (Out.status = 400 /\ NothingStarted)
        /\ (\A i \in WithSecret(Out.filtered) :
               Req.headers["X-Hub-Signature-256"] = Sha256Of(Out.filtered[i]))
           => Out.status = 200

\* C7 witness: a project with a secret is accepted on a correct
\* x-hub-signature-256.
C7_Witness ==
    /\ GitHubValidated
    /\ Sent("X-Hub-Signature-256")
    /\ Out.status = 200
    /\ WithSecret(Out.started) # {}

\* C8: for a GitHub request without x-hub-signature-256 and a project with
\* a secret, x-hub-signature decides ("sha1=" plus the hex HMAC-SHA1 of the
\* raw body); without either header the response is 400 and no execution
\* is started.
C8_Sha1Fallback ==
    (GitHubValidated /\ ~ Sent("X-Hub-Signature-256") /\ WithSecret(Out.filtered) # {}) =>
        IF Sent("X-Hub-Signature")
        THEN (Out.status = 200 /\ Out.started = Out.filtered)
             <=> \A i \in WithSecret(Out.filtered) :
                     Req.headers["X-Hub-Signature"] = Sha1Of(Out.filtered[i])
        ELSE Out.status = 400 /\ NothingStarted

\* C8 witness: a project with a secret is accepted on a correct
\* x-hub-signature alone.
C8_Witness ==
    /\ GitHubValidated
    /\ ~ Sent("X-Hub-Signature-256")
    /\ Sent("X-Hub-Signature")
    /\ Out.status = 200
    /\ WithSecret(Out.started) # {}

\* C9: a GitLab request is accepted for a project with a secret only if it
\* carries an x-gitlab-token header equal to the project's token.
C9_GitLabTokenRequired ==
    (Validated /\ Out.handler = "GitLabRequestParser") =>
        \A i \in WithSecret(Out.started) :
            /\ Sent("X-Gitlab-Token")
            /\ Req.headers["X-Gitlab-Token"] = Secret(Out.started[i])

\* The configured projects with a secret and no filters whose url is among
\* the urls of a Coding payload.
CodingCandidates ==
    LET matched == get_matching_repo_configs(Repositories,
                       RepoUrls(Payload["repository"], CodingUrlKeys))
    IN  { matched[i] : i \in { j \in WithSecret(matched) : matched[j]["payload-filter"] = <<>> } }

\* C10: a Coding request is accepted for a matched project with a secret
\* (200 and an execution started, no filters) exactly when the body's token
\* field equals the project's token.
C10_CodingTokenDecides ==
    (Classified /\ Out.handler = "CodingRequestParser" /\ "repository" \in DOMAIN Payload) =>
        \A p \in CodingCandidates :
            (Out.status = 200 /\ Contains(Out.started, p))
            <=> ("token" \in DOMAIN Payload /\ Payload["token"] = Secret(p))

\* C11: a Harbor request whose validated projects include one with a secret
\* token is accepted exactly when its Authorization header equals the secret
\* token of every such project.
C11_HarborAuthorizationDecides ==
    (/\ Validated
     /\ Out.handler = "HarborRequestParser"
     /\ WithSecret(Out.filtered) # {})
    => (Out.stage = "accepted"
        <=> \A i \in WithSecret(Out.filtered) :
                /\ Sent("Authorization")
                /\ Req.headers["Authorization"] = Secret(Out.filtered[i]))

\* The parsers that inherit WebhookRequestParserBase.validate_request and
\* have no signature scheme of their own.
BaseValidated == Validated /\ Out.handler \in {"BitBucketRequestParser", "GenericRequestParser"}

\* C12: for BitBucket and Generic requests (the base-class validate_request),
\* validation succeeds if and only if no project in the set passed to it
\* declares a secret token.
C12_BaseValidatesWithoutSecrets ==
    BaseValidated => (Out.stage # "mismatch" <=> WithSecret(Out.filtered) = {})

\* A set with a project that declares a secret and one that does not is rejected.
C12_Witness ==
    /\ BaseValidated
    /\ Out.stage = "mismatch"
    /\ WithSecret(Out.filtered) # {}
    /\ WithSecret(Out.filtered) # 1..Len(Out.filtered)

\* C13: when none of the projects passed to validate_request defines a
\* secret token, validation succeeds for every parser, whatever signature
\* or token headers the request carries or omits.
C13_NoSecretAlwaysValidates ==
    (Validated /\ WithSecret(Out.filtered) = {}) => Out.stage # "mismatch"

\* A GitHub request without any signature header, for a project without a
\* secret, is accepted.
C13_Witness ==
    /\ Validated
    /\ Out.handler = "GitHubRequestParser"
    /\ Out.filtered # <<>>
    /\ WithSecret(Out.filtered) = {}
    /\ ~ Sent("X-Hub-Signature-256")
    /\ ~ Sent("X-Hub-Signature")
    /\ Out.stage = "accepted"

\* The same for the other parsers and for requests that do carry the headers.
C13_WitnessSigned ==
    /\ Validated
    /\ Out.handler = "GitHubRequestParser"
    /\ Out.filtered # <<>> /\ WithSecret(Out.filtered) = {}
    /\ Sent("X-Hub-Signature-256")
    /\ Out.stage = "accepted"

C13_WitnessGitLab ==
    /\ Validated
    /\ Out.handler = "GitLabRequestParser"
    /\ Out.filtered # <<>> /\ WithSecret(Out.filtered) = {}
    /\ Sent("X-Gitlab-Token")
    /\ Out.stage = "accepted"

C13_WitnessHarbor ==
    /\ Validated
    /\ Out.handler = "HarborRequestParser"
    /\ Out.filtered # <<>> /\ WithSecret(Out.filtered) = {}
    /\ Out.stage = "accepted"

C13_WitnessBase ==
    /\ BaseValidated
    /\ Out.filtered # <<>> /\ WithSecret(Out.filtered) = {}
    /\ Out.stage = "accepted"

\* get_matching_repo_configs has returned.
Matched == main_pc = "matching" /\ last # <<>>

\* The url a project is matched by: "match-url" when set, else "url".
MatchUrlOf(p) == IF Has(p, "match-url") THEN p["match-url"] ELSE p["url"]

AliasIs(p, url) == Has(p, "url_without_usernme") /\ p["url_without_usernme"] = url

Hits(p, url) == MatchUrlOf(p) = url \/ AliasIs(p, url)

Least(S) == CHOOSE n \in S : \A m \in S : n <= m

\* The first candidate that hits p, and p's first place in the configured list.
FirstHit(p, urls) == Least({ k \in 1..Len(urls) : Hits(p, urls[k]) })

FirstAt(p, repositories) == Least({ i \in 1..Len(repositories) : repositories[i] = p })

\* C14 as stated: the projects returned are those whose url or alias equals
\* a candidate, in the relative order of the configured list.
C14_Original ==
    Matched =>
        LET rs == last[1].repositories
            us == last[1].urls
            c == last[1].configs
        IN  /\ SeqToSet(c) = { rs[i] : i \in { j \in 1..Len(rs) :
                                 \E k \in 1..Len(us) :
                                     rs[j]["url"] = us[k] \/ AliasIs(rs[j], us[k]) } }
            /\ \A i, j \in 1..Len(c) : i < j => FirstAt(c[i], rs) < FirstAt(c[j], rs)

\* C14, amended: the projects returned are those whose match-url (url when
\* it has none) or alias equals a candidate, ordered by the first candidate
\* that hits them and, for the same candidate, by the configured list.
C14_Amended ==
    Matched =>
        LET rs == last[1].repositories
            us == last[1].urls
            c == last[1].configs
        IN  /\ SeqToSet(c) = { rs[i] : i \in { j \in 1..Len(rs) :
                                 \E k \in 1..Len(us) : Hits(rs[j], us[k]) } }
            /\ \A i, j \in 1..Len(c) : i < j =>
                   \/ FirstHit(c[i], us) < FirstHit(c[j], us)
                   \/ /\ FirstHit(c[i], us) = FirstHit(c[j], us)
                      /\ FirstAt(c[i], rs) < FirstAt(c[j], rs)

\* Two projects are returned in the order of the candidates that hit them,
\* which is not their order in the configured list.
C14_Witness ==
    /\ Matched
    /\ \E i, j \in 1..Len(last[1].configs) :
           /\ i < j
           /\ FirstAt(last[1].configs[i], last[1].repositories)
                  > FirstAt(last[1].configs[j], last[1].repositories)

\* C15: the list returned by get_matching_repo_configs contains each
\* configured project at most once.
C15_MatchedOnce ==
    Matched => \A i, j \in 1..Len(last[1].configs) :
                   i # j => last[1].configs[i] # last[1].configs[j]

\* A returned project is hit by two of the candidates, one of them its alias.
C15_Witness ==
    /\ Matched
    /\ \E i \in 1..Len(last[1].configs) : \E k, l \in 1..Len(last[1].urls) :
           /\ k # l
           /\ MatchUrlOf(last[1].configs[i]) = last[1].urls[k]
           /\ AliasIs(last[1].configs[i], last[1].urls[l])

\* The fields of the payload's repository object the chosen parser reads.
UrlKeysOf(handler) ==
    CASE handler = "CodingRequestParser" -> SeqToSet(CodingUrlKeys)
      [] handler = "GitLabRequestParser" -> SeqToSet(GitLabUrlKeys)
      [] OTHER -> SeqToSet(GitHubUrlKeys)

\* The urls the chosen parser extracts from the request.
ExtractedUrls ==
    IF Out.handler = "HarborRequestParser"
    THEN { SplitFirst(Payload["event_data"]["resources"][1]["resource_url"], "@") }
    ELSE IF ~ Has(Payload, "repository") THEN {}
    ELSE { Payload["repository"][k] :
               k \in UrlKeysOf(Out.handler) \cap DOMAIN Payload["repository"] }

\* C16 as stated: an execution of a project is started only if the urls
\* extracted from the request include the project's url or its alias.
C16_Original ==
    Handled => \A i \in 1..Len(Out.started) :
                   \E u \in ExtractedUrls :
                       Out.started[i]["url"] = u \/ AliasIs(Out.started[i], u)

\* C16, amended: an execution of a project is started only if the urls
\* extracted from the request include the project's match-url (its url when
\* it has none) or its alias.
C16_Amended ==
    Handled => \A i \in 1..Len(Out.started) :
                   \E u \in ExtractedUrls : Hits(Out.started[i], u)

\* A project is started for a request that names its match-url and not its url.
C16_Witness ==
    /\ Handled
    /\ \E i \in 1..Len(Out.started) :
           /\ Has(Out.started[i], "match-url")
           /\ Out.started[i]["match-url"] \in ExtractedUrls
           /\ Out.started[i]["url"] \notin ExtractedUrls

\* The request delivers a JSON object: as the body itself, or as the one
\* payload field of a form-encoded body.
JsonObjectSent ==
    /\ Handled
    /\ Req.body.doc.top = "dict"
    /\ \/ Req.body.enc = "plain"
       \/ /\ Req.body.n = 1
          /\ Sent("Content-Type")
          /\ Req.headers["Content-Type"] = "application/x-www-form-urlencoded"

\* None of the classifier's rules applies to the request.
NoRuleMatches ==
    /\ JsonObjectSent
    /\ ~ Sent("X-Coding-Event") /\ ~ Sent("X-Gitlab-Event") /\ ~ Sent("X-GitHub-Event")
    /\ ~ (Sent("User-Agent") /\ Req.headers["User-Agent"] \in BitbucketAgents)
    /\ ~ ("type" \in DOMAIN Payload /\ Payload["type"] = "PUSH_ARTIFACT")
    /\ ~ (Sent("Content-Type") /\ Req.headers["Content-Type"] = "application/json")

NoProjectHit ==
    \A i \in 1..Len(Repositories) : \A u \in ExtractedUrls : ~ Hits(Repositories[i], u)

\* A parser was chosen and the urls it extracts hit no configured project
\* (for Harbor: the payload is turned down as invalid, or its url hits none).
ZeroMatched ==
    /\ Classified
    /\ Out.handler # "None"
    /\ IF Out.handler = "HarborRequestParser"
       THEN \/ ~ Has(Payload, "event_data")
            \/ ~ (EventDataKeys \subseteq DOMAIN Payload["event_data"])
            \/ Has(Payload, "event_type") /\ NoProjectHit
       ELSE NoProjectHit

Refused ==
    /\ Out.status = 400
    /\ NothingStarted
    /\ Out.waiting = FALSE
    /\ Out.success = "False"

\* C17: a request no classifier rule matches, or whose parser matches zero
\* configured projects, gets a 400 response, starts no execution, and its
\* action ends with waiting=false and success=false.
C17_UnrecognizedOrNoMatchRefused ==
    (NoRuleMatches \/ ZeroMatched) => Refused

\* The same for the requests that carry a content-type header.
C17_WithContentType ==
    ((NoRuleMatches \/ ZeroMatched) /\ Sent("Content-Type")) => Refused

C17_WithContentTypeWitness ==
    /\ NoRuleMatches
    /\ Sent("Content-Type")
    /\ Refused

AllCleared == \A p \in Paths : locks[p] = Cleared

\* An attempt holds the running marker of path p.
RunningOn(p) ==
    \E i \in 1..Len(threads) :
        /\ threads[i].pc = "running"
        /\ threads[i].project["path"] = p

\* C18: when setup has completed at start-up, both markers of every
\* configured path are cleared whatever they were before; from then on a
\* running marker is only ever set while an attempt made after start-up
\* holds it, so no attempt is blocked by a marker a crashed process left;
\* and there are lock markers only for the projects that have a path.
C18_StartupClearsLocks ==
    /\ (main_pc = "setup" /\ last = <<>>) => AllCleared
    /\ main_pc # "constructed" => \A p \in Paths : locks[p].running => RunningOn(p)
    /\ DOMAIN locks = Paths

\* An attempt made after start-up has obtained the lock of its path.
C18_Witness ==
    /\ main_pc = "serving"
    /\ \E p \in Paths : locks[p].running /\ RunningOn(p)

\* do_POST handles a request in this step.
HandlesRequest == last' # last \/ Len(threads') > Len(threads)

CallsOf(call) == { i \in 1..Len(Out.trace) : Out.trace[i] = call }

\* C20: on every path through do_POST, no set_waiting(True) on the action
\* follows a set_waiting(False), and a waiting set to false is false when
\* the handler ends.
C20_WaitingNeverSetAgain ==
    Handled =>
        /\ \A i \in CallsOf("set_waiting(False)") :
               \A j \in CallsOf("set_waiting(True)") : j < i
        /\ CallsOf("set_waiting(False)") # {} => Out.waiting = FALSE

\* The error path: the parser raised, 500 was sent and waiting set to false.
C20_Witness ==
    /\ Handled
    /\ Out.stage = "error"
    /\ Out.status = 500
    /\ CallsOf("set_waiting(False)") # {}
    /\ Out.waiting = FALSE

\* The payload has every field Harbor documents: type, occur_at, operator,
\* event_data with at least one resource, each with digest, tag and
\* resource_url, and the repository with its five fields.
WellFormedHarbor ==
    /\ \A i \in 1..Len(EVENT_KEYS) : Has(Payload, EVENT_KEYS[i])
    /\ Payload["type"] = "PUSH_ARTIFACT"
    /\ Has(Payload["event_data"], "resources")
    /\ Has(Payload["event_data"], "repository")
    /\ Len(Payload["event_data"]["resources"]) > 0
    /\ \A r \in 1..Len(Payload["event_data"]["resources"]) :
           \A k \in 1..Len(RESOURCE_KEYS) :
               Has(Payload["event_data"]["resources"][r], RESOURCE_KEYS[k])
    /\ \A k \in 1..Len(REPOSITORY_KEYS) :
           Has(Payload["event_data"]["repository"], REPOSITORY_KEYS[k])

\* The first resource's resource_url up to the "@".
HarborUrl == SplitFirst(Payload["event_data"]["resources"][1]["resource_url"], "@")

\* C21: for a well-formed Harbor payload, get_matching_projects returns,
\* without raising, the configured projects matched by the first resource's
\* resource_url with everything from the "@" on removed.
C21_HarborMatchesResourceUrl ==
    (/\ Classified
     /\ Out.handler = "HarborRequestParser"
     /\ WellFormedHarbor)
    => /\ Out.raised = "none"
       /\ SeqToSet(Out.matched)
              = { Repositories[i] : i \in { j \in 1..Len(Repositories) :
                                              Hits(Repositories[j], HarborUrl) } }

\* The payload is marked as Harbor's and lacks event_data, or resources or
\* repository in it, or has them without a resource or without one of their
\* documented fields.
HarborIncomplete ==
    /\ Has(Payload, "type") /\ Payload["type"] = "PUSH_ARTIFACT"
    /\ \/ ~ Has(Payload, "event_data")
       \/ ~ Has(Payload["event_data"], "resources")
       \/ ~ Has(Payload["event_data"], "repository")
       \/ ~ WellFormedHarbor

NoMarkers ==
    /\ ~ Sent("X-Coding-Event") /\ ~ Sent("X-Gitlab-Event") /\ ~ Sent("X-GitHub-Event")
    /\ ~ (Sent("User-Agent") /\ Req.headers["User-Agent"] \in BitbucketAgents)

\* C22: a payload with type PUSH_ARTIFACT and no provider marker that lacks
\* the required event_data, resources or repository fields is classified as
\* Harbor, the parser returns no project without raising, and the response
\* is 400.
C22_IncompleteHarborRefused ==
    (Classified /\ NoMarkers /\ HarborIncomplete)
    => /\ Out.handler = "HarborRequestParser"
       /\ Out.raised = "none"
       /\ Out.matched = <<>>
       /\ Out.status = 400

\* The same for the payloads whose event_data has no members named by
\* single characters.
C22_DocumentedMembersOnly ==
    (/\ Classified /\ NoMarkers /\ HarborIncomplete
     /\ Has(Payload, "event_data") => EventDataKeys \cap DOMAIN Payload["event_data"] = {})
    => /\ Out.handler = "HarborRequestParser"
       /\ Out.raised = "none"
       /\ Out.matched = <<>>
       /\ Out.status = 400

\* The parser chosen is one of GitHub, GitLab and Coding, and the payload
\* has no repository object.
NoRepositoryObject ==
    /\ Classified
    /\ Out.handler \in {"GitHubRequestParser", "GitLabRequestParser", "CodingRequestParser"}
    /\ ~ Has(Payload, "repository")

C23_WitnessGitLab == NoRepositoryObject /\ Out.handler = "GitLabRequestParser" /\ Out.status = 400

C23_WitnessCoding == NoRepositoryObject /\ Out.handler = "CodingRequestParser" /\ Out.status = 400

\* The configured projects that survive the request: hit by one of the
\* extracted urls, not dropped by the Coding parser for their token, and
\* passing their filters.
Survives(p) ==
    /\ \E u \in ExtractedUrls : Hits(p, u)
    /\ (Out.handler = "CodingRequestParser" /\ Has(p, "secret-token"))
           => (Has(Payload, "token") /\ Payload["token"] = Secret(p))
    /\ apply_filters(p, LowerKeys(Req.headers), Plain(Req.body.doc))

\* C24: when a request is accepted, the workers started are one for each
\* project that survived matching, filtering and validation, in their
\* order, and none for any other configured project.
C24_OneExecutionPerSurvivor ==
    (Handled /\ Out.stage = "accepted")
    => /\ Len(threads) = Len(Out.filtered)
       /\ \A i \in 1..Len(threads) : threads[i].project = Out.filtered[i]
       /\ \A i, j \in 1..Len(threads) : i # j => threads[i].project # threads[j].project
       /\ { threads[i].project : i \in 1..Len(threads) }
              = { Repositories[i] : i \in { j \in 1..Len(Repositories) :
                                              Survives(Repositories[j]) } }

\* Two projects survived and a third, matched, was filtered out or not matched.
C24_Witness ==
    /\ Handled
    /\ Out.stage = "accepted"
    /\ Len(Out.filtered) = 2
    /\ Len(threads) = 2

\* The Harbor parser raises KeyError on the request: its event_data has the
\* members is_valid_webhook_request looks for, and it lacks resources or
\* repository (line 21 or 22) or, being complete, event_type (line 45).
HarborRaises ==
    /\ Classified
    /\ Out.handler = "HarborRequestParser"
    /\ \A i \in 1..Len(EVENT_KEYS) : Has(Payload, EVENT_KEYS[i])
    /\ EventDataKeys \subseteq DOMAIN Payload["event_data"]
    /\ \/ ~ Has(Payload["event_data"], "resources")
       \/ ~ Has(Payload["event_data"], "repository")
       \/ WellFormedHarbor /\ ~ Has(Payload, "event_type")

ResolvedAsFailed ==
    /\ Out.waiting = FALSE
    /\ Out.success = "False"
    /\ NothingStarted

\* C25: an exception other than ValueError raised while do_POST classifies,
\* matches, filters or validates gives a 500 response, resolves the action
\* as failed (waiting=false, success=false) and starts no execution.
C25_UnexpectedExceptionIs500 ==
    /\ HarborRaises => (Out.raised = "KeyError" /\ Out.status = 500 /\ ResolvedAsFailed)
    /\ (Classified /\ Out.raised \notin {"none", "ValueError"})
           => (Out.status = 500 /\ ResolvedAsFailed)

\* The Harbor parser raised KeyError and the request was answered with 500.
C25_Witness ==
    /\ HarborRaises
    /\ Out.raised = "KeyError"
    /\ Out.status = 500

\* The project passes its filters on the handled request.
PassesFilters(p) == apply_filters(p, LowerKeys(Req.headers), Plain(Req.body.doc))

\* C26: validate_request is given the matched projects that passed
\* apply_filters, in their order, and no other; the verdict is the one on
\* those projects alone, whatever the matched projects that were filtered
\* out would have made of it.
C26_FiltersBeforeValidation ==
    Validated =>
        /\ Out.filtered = SelectSeq(Out.matched, PassesFilters)
        /\ Out.stage = "mismatch"
               <=> \E i \in 1..Len(Out.filtered) : ~ PassesAlone(Out.filtered[i])

\* A request is accepted although a matched project that was filtered out
\* would not have passed validation.
C26_Witness ==
    /\ Validated
    /\ Out.stage = "accepted"
    /\ \E i \in 1..Len(Out.matched) :
           /\ ~ PassesFilters(Out.matched[i])
           /\ ~ PassesAlone(Out.matched[i])

\* C27: on every path by which do_POST finishes after registering its
\* action, by returning or by raising, the action has waiting=false.
C27_NeverLeftWaiting == Handled => Out.waiting = FALSE

\* The same for the requests that have a content-type header and a body
\* that is JSON.
C27_ParsedRequests ==
    (Handled /\ Out.stage \notin {"headers", "test_case"}) => Out.waiting = FALSE

\* C28: for an accepted request the 200 response is sent and the action is
\* resolved (waiting=false, success=true) before any worker is started, and
\* no step of a worker changes the response or the action's outcome.
C28_ResolvedBeforeExecution ==
    /\ [](Handled /\ Out.stage = "accepted" =>
            /\ Out.status = 200 /\ Out.waiting = FALSE /\ Out.success = "True"
            /\ CallsOf("thread.start") # {}
            /\ \A t \in CallsOf("thread.start") :
                   /\ \E i \in CallsOf("send") : i < t
                   /\ \E i \in CallsOf("set_waiting(False)") : i < t
                   /\ \E i \in CallsOf("set_success(True)") : i < t)
    /\ [][last' # last => (wire # <<>> /\ wire' = <<>> /\ main_pc = "serving")]_vars

\* A worker of an accepted request is running; the response and the action
\* are as do_POST left them.
C28_Witness ==
    /\ Handled
    /\ Out.stage = "accepted"
    /\ Out.status = 200
    /\ \E i \in 1..Len(threads) :
           /\ threads[i].pc = "running"
           /\ Contains(Out.started, threads[i].project)

\* The request is form-encoded and its JSON was taken from the one payload
\* field.
FormExtracted ==
    /\ Handled
    /\ Sent("Content-Type")
    /\ Req.headers["Content-Type"] = "application/x-www-form-urlencoded"
    /\ Req.body.enc = "form"
    /\ Req.body.n = 1

\* C29: for a form-encoded request classification and matching use the
\* JSON extracted from the payload field, while validate_request is given
\* the body as received: the request passes validation exactly when the
\* chosen parser accepts the filtered projects on the undecoded body.
C29_ValidationOverRawBody ==
    (Validated /\ FormExtracted) =>
        /\ Out.handler # "None"
        /\ Out.matched # <<>>
        /\ \A i \in 1..Len(Out.matched) : \E u \in ExtractedUrls : Hits(Out.matched[i], u)
        /\ Out.status = 200 <=>
               validate_request(Out.handler, LowerKeys(Req.headers), Req.body, Out.filtered)

\* A form-encoded GitHub request signed with the project's token over the
\* extracted JSON text is refused: the signature is checked against the
\* body as received.
C29_Witness ==
    /\ Validated
    /\ FormExtracted
    /\ Out.handler = "GitHubRequestParser"
    /\ Out.status = 400
    /\ WithSecret(Out.filtered) # {}
    /\ Sent("X-Hub-Signature-256")
    /\ \A i \in WithSecret(Out.filtered) :
           Req.headers["X-Hub-Signature-256"] =
               Signature("sha256=", "sha256", Secret(Out.filtered[i]), Plain(Req.body.doc))

InClients(h) == Contains(ws_clients, h)

\* C30: after any sequence of onMessage and onClose calls a handler is in
\* the shared clients list only if it sent an authenticate message with the
\* right auth-key and has not been closed since, so update() never sends to
\* a closed client.
C30_OnlyLiveAuthenticatedClients ==
    \A h \in Handlers :
        /\ InClients(h) => (ws_handlers[h].auths > 0 /\ ws_handlers[h].state # "closed")
        /\ ws_handlers[h].updated # "closed"

\* The same for the handlers that authenticated at most once.
C30_AuthenticatedOnce ==
    \A h \in Handlers :
        ws_handlers[h].auths <= 1 =>
            /\ InClients(h) => (ws_handlers[h].auths > 0 /\ ws_handlers[h].state # "closed")
            /\ ws_handlers[h].updated # "closed"

\* A handler is listed only if it authenticated with the right key.
C30_ListedHaveAuthenticated ==
    \A h \in Handlers : InClients(h) => ws_handlers[h].auths > 0

=============================================================================
